---- MODULE Spec2Model ----
(***************************************************************************)
(* Model of the photo-album REST backend (photos/models.py,                *)
(* photos/serializers.py, photos/views.py, photos/urls.py).                *)
(*                                                                         *)
(* The database is four tables plus the many-to-many through table of      *)
(* Photo.tags.  Every request handler is one atomic action; the request    *)
(* just handled and the response it produced are kept in `last`.           *)
(* Only the columns the handlers of this repository decide on are kept:    *)
(* User.username, Album.owner/title, Photo.owner/album, Tag.name and the   *)
(* through rows of Photo.tags.  Request bodies are well-formed: required   *)
(* scalar fields are present and of the right type, so the only            *)
(* validation failures modelled are the ones that depend on stored data    *)
(* (unique username, unique tag name, album key that names no album).      *)
(* A response that is produced before a serializer reads the body (401,    *)
(* 404) records no body.                                                   *)
(*                                                                         *)
(* The handlers are exercised by four specifications, each over the        *)
(* requests one group of properties is about: SpecUsers (registration and  *)
(* the user endpoints), SpecOwners (albums and photos of several owners,   *)
(* read and written), SpecWrites (every writing endpoint and its           *)
(* cascades) and SpecTags (tagging and tag search).  Spec is their union.  *)
(***************************************************************************)
EXTENDS Integers, FiniteSets, Sequences, TLC

VARIABLES users, albums, photos, tags, photo_tags,
          nextUser, nextAlbum, nextPhoto, nextTag, last

db   == <<users, albums, photos, tags, photo_tags>>
seqs == <<nextUser, nextAlbum, nextPhoto, nextTag>>
vars == <<users, albums, photos, tags, photo_tags,
          nextUser, nextAlbum, nextPhoto, nextTag, last>>

---------------------------------------------------------------------------
(* Bounds: how many rows of each table are ever inserted, and how long a   *)
(* tag_ids list may be.                                                    *)
MaxUsers   == 2
MaxAlbums  == 2
MaxPhotos  == 2
MaxTags    == 2
MaxListLen == 2

Usernames == {"alice", "bob"}
Titles    == {"t1", "t2"}
TagNames  == {"vacation", "family"}

(* Primary keys a request may name: every key ever issued plus one that    *)
(* was never issued.                                                       *)
UserIds  == 1..(MaxUsers + 1)
AlbumIds == 1..(MaxAlbums + 1)
PhotoIds == 1..(MaxPhotos + 1)
TagIds   == 1..(MaxTags + 1)

TagIdLists == UNION {[1..n -> TagIds] : n \in 0..MaxListLen}

Range(s) == {s[i] : i \in DOMAIN s}
Without(f, D) == [x \in (DOMAIN f) \ D |-> f[x]]
EmptyResult == [x \in {} |-> 0]
Rows(S) == [x \in S |-> 1]

---------------------------------------------------------------------------
(* Requests and responses.                                                 *)
NoBody ==
    [username |-> "", owner |-> 0, album |-> 0, title |-> "",
     has_tag_ids |-> FALSE, tag_ids |-> <<>>, names |-> {}]

NoTokens == [refresh |-> 0, access |-> 0]

(* result: the top-level records of the response, as a bag of primary     *)
(* keys; nested: the photos embedded in the albums of the response.        *)
NestedResponse(op, caller, id, body, status, result, nested) ==
    [op |-> op, caller |-> caller, id |-> id, body |-> body,
     status |-> status, result |-> result, nested |-> nested,
     tokens |-> NoTokens]

Response(op, caller, id, body, status, result, tokens) ==
    [op |-> op, caller |-> caller, id |-> id, body |-> body,
     status |-> status, result |-> result, nested |-> {},
     tokens |-> tokens]

Init ==
    /\ users = EmptyResult
    /\ albums = EmptyResult
    /\ photos = EmptyResult
    /\ tags = EmptyResult
    /\ photo_tags = {}
    /\ nextUser = 1
    /\ nextAlbum = 1
    /\ nextPhoto = 1
    /\ nextTag = 1
    /\ last = Response("none", 0, 0, NoBody, 0, EmptyResult, NoTokens)

(* permissions.IsAuthenticated: the bearer token must name a stored user.  *)
IsAuthenticated(caller) == caller \in DOMAIN users

---------------------------------------------------------------------------
(* Storage layer: foreign keys with on_delete=CASCADE and the through      *)
(* table of Photo.tags.                                                    *)

(* Album.owner: deleting users removes the albums they own.                *)
CascadeAlbums(us) == {a \in DOMAIN albums : albums[a].owner \in us}

(* Photo.album without on_delete=CASCADE: only the owner's deletion        *)
(* removes a photo.                                                        *)
CascadePhotos_owner_only(us, as) ==
    {p \in DOMAIN photos : photos[p].owner \in us}

(* Photo.album and Photo.owner: deleting albums or users removes the       *)
(* photos that point at them.                                              *)
CascadePhotos(us, as) ==
    {p \in DOMAIN photos : photos[p].owner \in us \/ photos[p].album \in as}

(* Photo.tags through rows disappear with either end of the association.   *)
CascadePhotoTags(ps, ts) ==
    {pt \in photo_tags : pt[1] \in ps \/ pt[2] \in ts}

(* Collector.delete for a set of users, albums, photos and tags.           *)
Delete(us, as0, ps0, ts) ==
    LET as == as0 \cup CascadeAlbums(us)
        ps == ps0 \cup CascadePhotos(us, as)
    IN  /\ users' = Without(users, us)
        /\ albums' = Without(albums, as)
        /\ photos' = Without(photos, ps)
        /\ tags' = Without(tags, ts)
        /\ photo_tags' = photo_tags \ CascadePhotoTags(ps, ts)

---------------------------------------------------------------------------
(* Users.                                                                  *)

(* A serializer that does not check the username against stored users.    *)
UserSerializer_is_valid_unchecked(name, instance) == TRUE

(* AbstractUser.username is unique; the serializer's UniqueValidator       *)
(* excludes the instance being updated (0 on create).                      *)
UserSerializer_is_valid(name, instance) ==
    ~ \E u \in DOMAIN users : u # instance /\ users[u].username = name

RefreshToken_for_user(u) == [refresh |-> u, access |-> u]

(* POST /users/ : registration, open to anyone.                            *)
UserViewSet_create(name) ==
    LET body == [NoBody EXCEPT !.username = name] IN
    /\ IF UserSerializer_is_valid(name, 0)
       THEN /\ nextUser <= MaxUsers
            /\ users' = users @@ (nextUser :> [username |-> name])
            /\ nextUser' = nextUser + 1
            /\ last' = Response("register", 0, nextUser, body, 201,
                                Rows({nextUser}),
                                RefreshToken_for_user(nextUser))
       ELSE /\ UNCHANGED <<users, nextUser>>
            /\ last' = Response("register", 0, 0, body, 400,
                                EmptyResult, NoTokens)
    /\ UNCHANGED <<albums, photos, tags, photo_tags,
                   nextAlbum, nextPhoto, nextTag>>

(* GET /users/me/                                                          *)
UserViewSet_me(caller) ==
    /\ IsAuthenticated(caller)
    /\ last' = Response("me", caller, caller, NoBody, 200,
                        Rows({caller}), NoTokens)
    /\ UNCHANGED <<db, seqs>>

(* PUT /users/update_profile/ : partial update of the caller's own row.    *)
UserViewSet_update_profile(caller, name) ==
    LET body == [NoBody EXCEPT !.username = name] IN
    /\ IsAuthenticated(caller)
    /\ IF UserSerializer_is_valid(name, caller)
       THEN /\ users' = [users EXCEPT ![caller].username = name]
            /\ last' = Response("update_profile", caller, caller, body, 200,
                                Rows({caller}), NoTokens)
       ELSE /\ UNCHANGED users
            /\ last' = Response("update_profile", caller, caller, body, 400,
                                EmptyResult, NoTokens)
    /\ UNCHANGED <<albums, photos, tags, photo_tags, seqs>>

(* UserViewSet.queryset = User.objects.all(): not scoped to the caller.    *)
UserViewSet_queryset == DOMAIN users

(* GET /users/                                                             *)
UserViewSet_list(caller) ==
    /\ IsAuthenticated(caller)
    /\ last' = Response("user_list", caller, 0, NoBody, 200,
                        Rows(UserViewSet_queryset), NoTokens)
    /\ UNCHANGED <<db, seqs>>

(* GET /users/{id}/                                                        *)
UserViewSet_retrieve(caller, id) ==
    /\ IsAuthenticated(caller)
    /\ last' = IF id \in UserViewSet_queryset
               THEN Response("user_retrieve", caller, id, NoBody, 200,
                             Rows({id}), NoTokens)
               ELSE Response("user_retrieve", caller, id, NoBody, 404,
                             EmptyResult, NoTokens)
    /\ UNCHANGED <<db, seqs>>

(* PUT|PATCH /users/{id}/ : the router exposes ModelViewSet's update.      *)
UserViewSet_update(caller, id, name) ==
    LET body == [NoBody EXCEPT !.username = name] IN
    /\ IsAuthenticated(caller)
    /\ IF id \notin UserViewSet_queryset
       THEN /\ UNCHANGED users
            /\ last' = Response("user_update", caller, id, NoBody, 404,
                                EmptyResult, NoTokens)
       ELSE IF UserSerializer_is_valid(name, id)
       THEN /\ users' = [users EXCEPT ![id].username = name]
            /\ last' = Response("user_update", caller, id, body, 200,
                                Rows({id}), NoTokens)
       ELSE /\ UNCHANGED users
            /\ last' = Response("user_update", caller, id, body, 400,
                                EmptyResult, NoTokens)
    /\ UNCHANGED <<albums, photos, tags, photo_tags, seqs>>

(* DELETE /users/{id}/ : the router exposes ModelViewSet's destroy.        *)
UserViewSet_destroy(caller, id) ==
    /\ IsAuthenticated(caller)
    /\ IF id \notin UserViewSet_queryset
       THEN /\ UNCHANGED db
            /\ last' = Response("user_delete", caller, id, NoBody, 404,
                                EmptyResult, NoTokens)
       ELSE /\ Delete({id}, {}, {}, {})
            /\ last' = Response("user_delete", caller, id, NoBody, 204,
                                EmptyResult, NoTokens)
    /\ UNCHANGED seqs

---------------------------------------------------------------------------
(* Albums.                                                                 *)

(* A queryset that is not filtered by owner: Album.objects.all().          *)
AlbumViewSet_get_queryset_all(user) == DOMAIN albums

(* Album.objects.filter(owner=self.request.user)                           *)
AlbumViewSet_get_queryset(user) ==
    {a \in DOMAIN albums : albums[a].owner = user}

(* serializer.save(owner=self.request.user): owner is read-only in the     *)
(* serializer, so body.owner never reaches validated_data.                 *)
AlbumViewSet_perform_create(caller, body) ==
    [owner |-> caller, title |-> body.title]

(* AlbumSerializer.photos: the reverse side of Photo.album.                *)
AlbumSerializer_photos(as) ==
    {p \in DOMAIN photos : photos[p].album \in as}

(* GET /albums/                                                            *)
AlbumViewSet_list(caller) ==
    LET qs == AlbumViewSet_get_queryset(caller) IN
    /\ IsAuthenticated(caller)
    /\ last' = NestedResponse("album_list", caller, 0, NoBody, 200,
                              Rows(qs), AlbumSerializer_photos(qs))
    /\ UNCHANGED <<db, seqs>>

(* GET /albums/{id}/                                                       *)
AlbumViewSet_retrieve(caller, id) ==
    /\ IsAuthenticated(caller)
    /\ last' = IF id \in AlbumViewSet_get_queryset(caller)
               THEN NestedResponse("album_retrieve", caller, id, NoBody, 200,
                                   Rows({id}), AlbumSerializer_photos({id}))
               ELSE Response("album_retrieve", caller, id, NoBody, 404,
                             EmptyResult, NoTokens)
    /\ UNCHANGED <<db, seqs>>

(* POST /albums/                                                           *)
AlbumViewSet_create(caller, title, owner) ==
    LET body == [NoBody EXCEPT !.title = title, !.owner = owner] IN
    /\ IsAuthenticated(caller)
    /\ nextAlbum <= MaxAlbums
    /\ albums' = albums @@
                   (nextAlbum :> AlbumViewSet_perform_create(caller, body))
    /\ nextAlbum' = nextAlbum + 1
    /\ last' = Response("album_create", caller, nextAlbum, body, 201,
                        Rows({nextAlbum}), NoTokens)
    /\ UNCHANGED <<users, photos, tags, photo_tags,
                   nextUser, nextPhoto, nextTag>>

(* PUT|PATCH /albums/{id}/ : get_object() looks the id up in               *)
(* get_queryset(); owner is read-only.                                     *)
AlbumViewSet_update(caller, id, title, owner) ==
    LET body == [NoBody EXCEPT !.title = title, !.owner = owner] IN
    /\ IsAuthenticated(caller)
    /\ IF id \in AlbumViewSet_get_queryset(caller)
       THEN /\ albums' = [albums EXCEPT ![id].title = title]
            /\ last' = NestedResponse("album_update", caller, id, body, 200,
                                      Rows({id}),
                                      AlbumSerializer_photos({id}))
       ELSE /\ UNCHANGED albums
            /\ last' = Response("album_update", caller, id, NoBody, 404,
                                EmptyResult, NoTokens)
    /\ UNCHANGED <<users, photos, tags, photo_tags, seqs>>

(* DELETE /albums/{id}/                                                    *)
AlbumViewSet_destroy(caller, id) ==
    /\ IsAuthenticated(caller)
    /\ IF id \in AlbumViewSet_get_queryset(caller)
       THEN /\ Delete({}, {id}, {}, {})
            /\ last' = Response("album_delete", caller, id, NoBody, 204,
                                EmptyResult, NoTokens)
       ELSE /\ UNCHANGED db
            /\ last' = Response("album_delete", caller, id, NoBody, 404,
                                EmptyResult, NoTokens)
    /\ UNCHANGED seqs

---------------------------------------------------------------------------
(* Tags.                                                                   *)

(* Tag.name is unique; the UniqueValidator excludes the instance.          *)
TagSerializer_is_valid(name, instance) ==
    ~ \E t \in DOMAIN tags : t # instance /\ tags[t].name = name

(* TagViewSet.queryset = Tag.objects.all()                                 *)
TagViewSet_queryset == DOMAIN tags

(* GET /tags/                                                              *)
TagViewSet_list(caller) ==
    /\ IsAuthenticated(caller)
    /\ last' = Response("tag_list", caller, 0, NoBody, 200,
                        Rows(TagViewSet_queryset), NoTokens)
    /\ UNCHANGED <<db, seqs>>

(* GET /tags/{id}/                                                         *)
TagViewSet_retrieve(caller, id) ==
    /\ IsAuthenticated(caller)
    /\ last' = IF id \in TagViewSet_queryset
               THEN Response("tag_retrieve", caller, id, NoBody, 200,
                             Rows({id}), NoTokens)
               ELSE Response("tag_retrieve", caller, id, NoBody, 404,
                             EmptyResult, NoTokens)
    /\ UNCHANGED <<db, seqs>>

(* POST /tags/                                                             *)
TagViewSet_create(caller, name) ==
    /\ IsAuthenticated(caller)
    /\ IF TagSerializer_is_valid(name, 0)
       THEN /\ nextTag <= MaxTags
            /\ tags' = tags @@ (nextTag :> [name |-> name])
            /\ nextTag' = nextTag + 1
            /\ last' = Response("tag_create", caller, nextTag, NoBody, 201,
                                Rows({nextTag}), NoTokens)
       ELSE /\ UNCHANGED <<tags, nextTag>>
            /\ last' = Response("tag_create", caller, 0, NoBody, 400,
                                EmptyResult, NoTokens)
    /\ UNCHANGED <<users, albums, photos, photo_tags,
                   nextUser, nextAlbum, nextPhoto>>

(* PUT|PATCH /tags/{id}/                                                   *)
TagViewSet_update(caller, id, name) ==
    /\ IsAuthenticated(caller)
    /\ IF id \notin TagViewSet_queryset
       THEN /\ UNCHANGED tags
            /\ last' = Response("tag_update", caller, id, NoBody, 404,
                                EmptyResult, NoTokens)
       ELSE IF TagSerializer_is_valid(name, id)
       THEN /\ tags' = [tags EXCEPT ![id].name = name]
            /\ last' = Response("tag_update", caller, id, NoBody, 200,
                                Rows({id}), NoTokens)
       ELSE /\ UNCHANGED tags
            /\ last' = Response("tag_update", caller, id, NoBody, 400,
                                EmptyResult, NoTokens)
    /\ UNCHANGED <<users, albums, photos, photo_tags, seqs>>

(* DELETE /tags/{id}/                                                      *)
TagViewSet_destroy(caller, id) ==
    /\ IsAuthenticated(caller)
    /\ IF id \in TagViewSet_queryset
       THEN /\ Delete({}, {}, {}, {id})
            /\ last' = Response("tag_delete", caller, id, NoBody, 204,
                                EmptyResult, NoTokens)
       ELSE /\ UNCHANGED db
            /\ last' = Response("tag_delete", caller, id, NoBody, 404,
                                EmptyResult, NoTokens)
    /\ UNCHANGED seqs

---------------------------------------------------------------------------
(* Photos.                                                                 *)

(* A queryset that is not filtered by owner: Photo.objects.all().          *)
PhotoViewSet_get_queryset_all(user) == DOMAIN photos

(* Photo.objects.filter(owner=self.request.user)                           *)
PhotoViewSet_get_queryset(user) ==
    {p \in DOMAIN photos : photos[p].owner = user}

(* A create that lets a writable owner field of the body win.              *)
PhotoViewSet_perform_create_body_owner(caller, body) ==
    [owner |-> IF body.owner # 0 THEN body.owner ELSE caller,
     album |-> body.album]

(* serializer.save(owner=self.request.user): owner is read-only in the     *)
(* serializer, so body.owner never reaches validated_data.                 *)
PhotoViewSet_perform_create(caller, body) ==
    [owner |-> caller, album |-> body.album]

(* The writable `album` field is a primary-key field over                  *)
(* Album.objects.all(): any stored album passes, whoever owns it.          *)
(* album = 0 is a PATCH body without the field.                            *)
PhotoSerializer_is_valid(body, partial) ==
    IF body.album = 0 THEN partial ELSE body.album \in DOMAIN albums

(* Attaching the submitted identifiers without looking them up.            *)
Tag_objects_filter_unchecked(tag_ids) == Range(tag_ids)

(* Tag.objects.filter(id__in=tag_ids)                                      *)
Tag_objects_filter(tag_ids) ==
    {t \in DOMAIN tags : t \in Range(tag_ids)}

(* photo.tags.set(tags): the through rows of the photo become exactly      *)
(* the given tags.                                                         *)
tags_set(p, ts) ==
    {pt \in photo_tags : pt[1] # p} \cup {<<p, t>> : t \in ts}

(* PhotoSerializer.create: tag_ids defaults to [], and an empty list       *)
(* skips the set() call.                                                   *)
PhotoSerializer_create(p, body) ==
    LET tag_ids == IF body.has_tag_ids THEN body.tag_ids ELSE <<>> IN
    IF tag_ids # <<>>
    THEN tags_set(p, Tag_objects_filter(tag_ids))
    ELSE photo_tags

(* An update that tests `if tag_ids:` as create does, so that an empty     *)
(* list is skipped as well.                                                *)
PhotoSerializer_update_truthy(p, body) ==
    IF body.has_tag_ids /\ body.tag_ids # <<>>
    THEN {pt \in photo_tags : pt[1] # p}
             \cup {<<p, t>> : t \in {x \in DOMAIN tags : x \in Range(body.tag_ids)}}
    ELSE photo_tags

(* PhotoSerializer.update: tag_ids defaults to None, and only None skips   *)
(* the set() call.                                                         *)
PhotoSerializer_update(p, body) ==
    IF body.has_tag_ids
    THEN tags_set(p, Tag_objects_filter(body.tag_ids))
    ELSE photo_tags

(* ModelSerializer.update: assigns the validated fields that are present.  *)
ModelSerializer_update(row, body) ==
    [row EXCEPT !.album = IF body.album = 0 THEN @ ELSE body.album]

(* GET /photos/                                                            *)
PhotoViewSet_list(caller) ==
    /\ IsAuthenticated(caller)
    /\ last' = Response("photo_list", caller, 0, NoBody, 200,
                        Rows(PhotoViewSet_get_queryset(caller)), NoTokens)
    /\ UNCHANGED <<db, seqs>>

(* GET /photos/{id}/                                                       *)
PhotoViewSet_retrieve(caller, id) ==
    /\ IsAuthenticated(caller)
    /\ last' = IF id \in PhotoViewSet_get_queryset(caller)
               THEN Response("photo_retrieve", caller, id, NoBody, 200,
                             Rows({id}), NoTokens)
               ELSE Response("photo_retrieve", caller, id, NoBody, 404,
                             EmptyResult, NoTokens)
    /\ UNCHANGED <<db, seqs>>

(* POST /photos/                                                           *)
PhotoViewSet_create(caller, body) ==
    /\ IsAuthenticated(caller)
    /\ IF PhotoSerializer_is_valid(body, FALSE)
       THEN /\ nextPhoto <= MaxPhotos
            /\ photos' = photos @@
                  (nextPhoto :> PhotoViewSet_perform_create(caller, body))
            /\ photo_tags' = PhotoSerializer_create(nextPhoto, body)
            /\ nextPhoto' = nextPhoto + 1
            /\ last' = Response("photo_create", caller, nextPhoto, body, 201,
                                Rows({nextPhoto}), NoTokens)
       ELSE /\ UNCHANGED <<photos, photo_tags, nextPhoto>>
            /\ last' = Response("photo_create", caller, 0, body, 400,
                                EmptyResult, NoTokens)
    /\ UNCHANGED <<users, albums, tags, nextUser, nextAlbum, nextTag>>

(* PUT|PATCH /photos/{id}/                                                 *)
PhotoViewSet_update(caller, id, body) ==
    /\ IsAuthenticated(caller)
    /\ IF id \notin PhotoViewSet_get_queryset(caller)
       THEN /\ UNCHANGED <<photos, photo_tags>>
            /\ last' = Response("photo_update", caller, id, NoBody, 404,
                                EmptyResult, NoTokens)
       ELSE IF PhotoSerializer_is_valid(body, TRUE)
       THEN /\ photo_tags' = PhotoSerializer_update(id, body)
            /\ photos' = [photos EXCEPT
                            ![id] = ModelSerializer_update(@, body)]
            /\ last' = Response("photo_update", caller, id, body, 200,
                                Rows({id}), NoTokens)
       ELSE /\ UNCHANGED <<photos, photo_tags>>
            /\ last' = Response("photo_update", caller, id, body, 400,
                                EmptyResult, NoTokens)
    /\ UNCHANGED <<users, albums, tags, seqs>>

(* DELETE /photos/{id}/                                                    *)
PhotoViewSet_destroy(caller, id) ==
    /\ IsAuthenticated(caller)
    /\ IF id \in PhotoViewSet_get_queryset(caller)
       THEN /\ Delete({}, {}, {id}, {})
            /\ last' = Response("photo_delete", caller, id, NoBody, 204,
                                EmptyResult, NoTokens)
       ELSE /\ UNCHANGED db
            /\ last' = Response("photo_delete", caller, id, NoBody, 404,
                                EmptyResult, NoTokens)
    /\ UNCHANGED seqs

(* Photo.objects.filter(tags__name__in=names): the join of photos with     *)
(* their through rows yields one row per matching (photo, tag) pair.       *)
Photo_objects_filter_tags(names) ==
    LET match == {pt \in photo_tags :
                     pt[2] \in DOMAIN tags /\ tags[pt[2]].name \in names} IN
    [p \in {pt[1] : pt \in match} |->
        Cardinality({pt \in match : pt[1] = p})]

(* A queryset without .distinct(): the rows of the join as they are.       *)
not_distinct(rows) == rows

(* QuerySet.distinct()                                                     *)
distinct(rows) == [p \in DOMAIN rows |-> 1]

(* The queryset of search_by_tags.                                         *)
search_by_tags(names) == distinct(Photo_objects_filter_tags(names))

(* GET /photos/search_by_tags/?tags=a&tags=b                               *)
PhotoViewSet_search_by_tags(caller, names) ==
    /\ IsAuthenticated(caller)
    /\ last' = Response("search_by_tags", caller, 0,
                        [NoBody EXCEPT !.names = names], 200,
                        search_by_tags(names), NoTokens)
    /\ UNCHANGED <<db, seqs>>

---------------------------------------------------------------------------
(* A request to an IsAuthenticated endpoint without a valid token, or      *)
(* with the token of a user that has been deleted.                         *)
AuthenticatedOps ==
    {"me", "album_list", "album_create", "album_update", "album_delete",
     "photo_list", "photo_create", "photo_update", "photo_delete",
     "search_by_tags", "user_update", "user_delete", "tag_delete"}

NotAuthenticated(caller, op) ==
    /\ ~IsAuthenticated(caller)
    /\ last' = Response(op, caller, 0, NoBody, 401, EmptyResult, NoTokens)
    /\ UNCHANGED <<db, seqs>>

---------------------------------------------------------------------------
(* Request bodies of the photo endpoints.  album = 0 is a body without     *)
(* the field (PATCH), owner = 0 a body without an owner field.             *)
OwnerInputs == 0..MaxUsers

PhotoBody(album, owner, has_tag_ids, tag_ids) ==
    [NoBody EXCEPT !.album = album, !.owner = owner,
                   !.has_tag_ids = has_tag_ids, !.tag_ids = tag_ids]

(* Bodies with every tag_ids list up to MaxListLen, sent without an owner. *)
TagBodies(albumInputs) ==
    {PhotoBody(a, 0, FALSE, <<>>) : a \in albumInputs}
    \cup {PhotoBody(a, 0, TRUE, l) : a \in albumInputs, l \in TagIdLists}

(* Bodies with every owner value, sent without tag_ids.                    *)
OwnerBodies(albumInputs) ==
    {PhotoBody(a, o, FALSE, <<>>) : a \in albumInputs, o \in OwnerInputs}

---------------------------------------------------------------------------
(* Registration and the user endpoints, with and without a valid token.   *)
NextUsers ==
    \/ \E name \in Usernames : UserViewSet_create(name)
    \/ \E caller \in UserIds : UserViewSet_me(caller)
    \/ \E caller \in UserIds, name \in Usernames :
          UserViewSet_update_profile(caller, name)
    \/ \E caller \in UserIds : UserViewSet_list(caller)
    \/ \E caller \in UserIds, id \in UserIds : UserViewSet_retrieve(caller, id)
    \/ \E caller \in UserIds, id \in UserIds, name \in Usernames :
          UserViewSet_update(caller, id, name)
    \/ \E caller \in UserIds, id \in UserIds : UserViewSet_destroy(caller, id)
    \/ \E caller \in {0} \cup UserIds, op \in AuthenticatedOps :
          NotAuthenticated(caller, op)

SpecUsers == Init /\ [][NextUsers]_vars

(* Ownership: who may see, change and delete which album and photo.        *)
(* Photos are sent without tag_ids, with every value of album and owner.   *)
NextOwners ==
    \/ \E name \in Usernames : UserViewSet_create(name)
    \/ \E caller \in UserIds, id \in UserIds : UserViewSet_destroy(caller, id)
    \/ \E caller \in UserIds : AlbumViewSet_list(caller)
    \/ \E caller \in UserIds, id \in AlbumIds :
          AlbumViewSet_retrieve(caller, id)
    \/ \E caller \in UserIds, title \in Titles, owner \in OwnerInputs :
          AlbumViewSet_create(caller, title, owner)
    \/ \E caller \in UserIds, id \in AlbumIds, title \in Titles,
          owner \in OwnerInputs :
          AlbumViewSet_update(caller, id, title, owner)
    \/ \E caller \in UserIds, id \in AlbumIds :
          AlbumViewSet_destroy(caller, id)
    \/ \E caller \in UserIds : PhotoViewSet_list(caller)
    \/ \E caller \in UserIds, id \in PhotoIds :
          PhotoViewSet_retrieve(caller, id)
    \/ \E caller \in UserIds, body \in OwnerBodies(AlbumIds) :
          PhotoViewSet_create(caller, body)
    \/ \E caller \in UserIds, id \in PhotoIds,
          body \in OwnerBodies({0} \cup AlbumIds) :
          PhotoViewSet_update(caller, id, body)
    \/ \E caller \in UserIds, id \in PhotoIds :
          PhotoViewSet_destroy(caller, id)

SpecOwners == Init /\ [][NextOwners]_vars

(* Photo bodies of SpecWrites: any album, tag_ids absent, empty, [1] or    *)
(* [2, k] with k an id that names no tag.                                  *)
WriteBodies(albumInputs) ==
    {PhotoBody(a, 0, FALSE, <<>>) : a \in albumInputs}
    \cup {PhotoBody(a, 0, TRUE, l) :
             a \in albumInputs, l \in {<<>>, <<1>>, <<2, MaxTags + 1>>}}

(* Every endpoint that writes, with its cascades.  Users are renamed and   *)
(* deleted by anyone, albums and tags created and deleted, and the first   *)
(* photo is uploaded into any album, re-tagged, moved and deleted.         *)
NextWrites ==
    \/ \E name \in Usernames : UserViewSet_create(name)
    \/ \E caller \in UserIds, id \in UserIds, name \in Usernames :
          UserViewSet_update(caller, id, name)
    \/ \E caller \in UserIds, id \in UserIds : UserViewSet_destroy(caller, id)
    \/ \E caller \in UserIds : AlbumViewSet_create(caller, "t1", 0)
    \/ \E caller \in UserIds, id \in AlbumIds :
          AlbumViewSet_update(caller, id, "t2", 0)
    \/ \E caller \in UserIds, id \in AlbumIds :
          AlbumViewSet_destroy(caller, id)
    \/ \E caller \in UserIds : TagViewSet_create(caller, "vacation")
    \/ \E caller \in UserIds, id \in TagIds : TagViewSet_destroy(caller, id)
    \/ \E caller \in UserIds, body \in WriteBodies(AlbumIds) :
          nextPhoto = 1 /\ PhotoViewSet_create(caller, body)
    \/ \E caller \in UserIds, id \in PhotoIds,
          body \in WriteBodies({0} \cup AlbumIds) :
          PhotoViewSet_update(caller, id, body)
    \/ \E caller \in UserIds, id \in PhotoIds :
          PhotoViewSet_destroy(caller, id)

SpecWrites == Init /\ [][NextWrites]_vars

(* Tagging and tag search: photos of several owners in the first album,   *)
(* created and updated with every tag_ids list, tags created, renamed and  *)
(* deleted, and searches for every set of names.                           *)
NextTags ==
    \/ \E name \in Usernames : UserViewSet_create(name)
    \/ \E caller \in UserIds :
          nextAlbum = 1 /\ AlbumViewSet_create(caller, "t1", 0)
    \/ \E caller \in UserIds : TagViewSet_list(caller)
    \/ \E caller \in UserIds, id \in TagIds : TagViewSet_retrieve(caller, id)
    \/ \E caller \in UserIds, name \in TagNames :
          TagViewSet_create(caller, name)
    \/ \E caller \in UserIds, id \in TagIds, name \in TagNames :
          TagViewSet_update(caller, id, name)
    \/ \E caller \in UserIds, id \in TagIds : TagViewSet_destroy(caller, id)
    \/ \E caller \in UserIds, body \in TagBodies({1}) :
          PhotoViewSet_create(caller, body)
    \/ \E caller \in UserIds, id \in PhotoIds, body \in TagBodies({0}) :
          PhotoViewSet_update(caller, id, body)
    \/ \E caller \in UserIds, id \in PhotoIds :
          PhotoViewSet_destroy(caller, id)
    \/ \E caller \in UserIds, names \in SUBSET TagNames :
          PhotoViewSet_search_by_tags(caller, names)

SpecTags == Init /\ [][NextTags]_vars

(* Every endpoint of the router.                                           *)
Next == NextUsers \/ NextOwners \/ NextWrites \/ NextTags

Spec == Init /\ [][Next]_vars

---------------------------------------------------------------------------
(* Properties.                                                             *)

TagsIn(rows, p) == {pt[2] : pt \in {x \in rows : x[1] = p}}

PhotoTags(p) == TagsIn(photo_tags, p)

Created(op) == last.op = op /\ last.status = 201

(* C1: a list or retrieve on the album endpoints, and on the photo         *)
(* endpoints, returns only records owned by the caller, and a retrieve of  *)
(* a record that belongs to another user answers 404.                      *)
C1_ReadsAreOwnerScoped ==
    /\ (last.op \in {"album_list", "album_retrieve"} /\ last.status = 200)
          => \A a \in DOMAIN last.result :
                a \in DOMAIN albums /\ albums[a].owner = last.caller
    /\ (last.op \in {"photo_list", "photo_retrieve"} /\ last.status = 200)
          => \A p \in DOMAIN last.result :
                p \in DOMAIN photos /\ photos[p].owner = last.caller
    /\ (last.op = "album_retrieve" /\ last.id \in DOMAIN albums
            /\ albums[last.id].owner # last.caller)
          => last.status = 404 /\ last.result = EmptyResult
    /\ (last.op = "photo_retrieve" /\ last.id \in DOMAIN photos
            /\ photos[last.id].owner # last.caller)
          => last.status = 404 /\ last.result = EmptyResult

(* A user lists albums and gets some, while another user's album is        *)
(* stored.                                                                 *)
C1_Witness ==
    /\ last.op = "album_list"
    /\ last.status = 200
    /\ DOMAIN last.result # {}
    /\ \E a \in DOMAIN albums : albums[a].owner # last.caller

(* C2: the record stored by a successful album or photo create is owned    *)
(* by the caller whatever owner the body carries, and no step changes the  *)
(* owner of a stored album or photo.                                       *)
C2_OwnerIsCaller ==
    [][ /\ (last'.op = "album_create" /\ last'.status = 201)
              => /\ last'.id \notin DOMAIN albums
                 /\ last'.id \in DOMAIN albums'
                 /\ albums'[last'.id].owner = last'.caller
        /\ (last'.op = "photo_create" /\ last'.status = 201)
              => /\ last'.id \notin DOMAIN photos
                 /\ last'.id \in DOMAIN photos'
                 /\ photos'[last'.id].owner = last'.caller
        /\ \A a \in DOMAIN albums \cap DOMAIN albums' :
              albums'[a].owner = albums[a].owner
        /\ \A p \in DOMAIN photos \cap DOMAIN photos' :
              photos'[p].owner = photos[p].owner ]_vars

(* A photo is created by a body that names another stored user as owner.   *)
C2_Witness ==
    /\ Created("photo_create")
    /\ last.body.owner \in DOMAIN users
    /\ last.body.owner # last.caller
    /\ last.id \in DOMAIN photos

(* C3: an update or delete of an album or photo by a caller who does not   *)
(* own it answers 404 with the empty response of an unknown id, and        *)
(* leaves every table unchanged.                                           *)
C3_NotOwnerIsNotFound ==
    [][ /\ (last'.op \in {"album_update", "album_delete"}
              /\ last'.caller \in DOMAIN users
              /\ last'.id \in DOMAIN albums
              /\ albums[last'.id].owner # last'.caller)
           => /\ last'.status = 404
              /\ last'.result = EmptyResult
              /\ last'.body = NoBody
              /\ UNCHANGED db
        /\ (last'.op \in {"photo_update", "photo_delete"}
              /\ last'.caller \in DOMAIN users
              /\ last'.id \in DOMAIN photos
              /\ photos[last'.id].owner # last'.caller)
           => /\ last'.status = 404
              /\ last'.result = EmptyResult
              /\ last'.body = NoBody
              /\ UNCHANGED db ]_vars

(* A user's update of another user's tagged photo has been answered 404.   *)
C3_Witness ==
    /\ last.op = "photo_update"
    /\ last.status = 404
    /\ last.id \in DOMAIN photos
    /\ photos[last.id].owner # last.caller
    /\ PhotoTags(last.id) # {}

(* C4: every step that changes or removes a stored user, album or photo    *)
(* is a request of that record's owner (of the user itself).               *)
C4_OnlyOwnerWrites ==
    [][ /\ \A u \in DOMAIN users :
              (u \notin DOMAIN users' \/ users'[u] # users[u])
                 => last'.caller = u
        /\ \A a \in DOMAIN albums :
              (a \notin DOMAIN albums' \/ albums'[a] # albums[a])
                 => last'.caller = albums[a].owner
        /\ \A p \in DOMAIN photos :
              (p \notin DOMAIN photos' \/ photos'[p] # photos[p])
                 => last'.caller = photos[p].owner ]_vars

UniqueUsernames ==
    \A u, v \in DOMAIN users : users[u].username = users[v].username => u = v

(* C5: registration with a username that is not stored answers 201, adds   *)
(* exactly one user and returns it with an access and a refresh token;     *)
(* with a stored username it answers 400, returns no token and leaves the  *)
(* users unchanged; no two stored users share a username.                  *)
C5_Registration ==
    [][ /\ last'.op = "register" =>
              IF \E u \in DOMAIN users :
                     users[u].username = last'.body.username
              THEN /\ last'.status = 400
                   /\ last'.tokens = NoTokens
                   /\ last'.result = EmptyResult
                   /\ users' = users
              ELSE /\ last'.status = 201
                   /\ DOMAIN users' = DOMAIN users \cup {last'.id}
                   /\ last'.id \notin DOMAIN users
                   /\ users'[last'.id].username = last'.body.username
                   /\ \A u \in DOMAIN users : users'[u] = users[u]
                   /\ DOMAIN last'.result = {last'.id}
                   /\ last'.tokens.access = last'.id
                   /\ last'.tokens.refresh = last'.id
        /\ UniqueUsernames' ]_vars

(* A registration has been refused because the username is stored.         *)
C5_Witness ==
    /\ last.op = "register"
    /\ last.status = 400
    /\ \E u \in DOMAIN users : users[u].username = last.body.username

(* C6: after a successful photo create or update that carries tag_ids L,   *)
(* the photo's tags are exactly the stored tags whose id is in L.          *)
C6_TagsAreStoredIdsOfL ==
    (/\ last.op \in {"photo_create", "photo_update"}
     /\ last.status \in {200, 201}
     /\ last.body.has_tag_ids)
    => PhotoTags(last.id) =
          {t \in DOMAIN tags : \E i \in DOMAIN last.body.tag_ids :
                                  last.body.tag_ids[i] = t}

(* A photo is created with a list that names a stored tag and an id that   *)
(* names none.                                                             *)
C6_Witness ==
    /\ Created("photo_create")
    /\ last.body.has_tag_ids
    /\ \E i, j \in DOMAIN last.body.tag_ids :
          /\ last.body.tag_ids[i] \in DOMAIN tags
          /\ last.body.tag_ids[j] \notin DOMAIN tags
    /\ PhotoTags(last.id) # {}

Matches(p, names) ==
    \E t \in DOMAIN tags : <<p, t>> \in photo_tags /\ tags[t].name \in names

(* C7: search_by_tags with names N returns each stored photo, of any       *)
(* owner, that has a tag named in N, once, and no other photo; nothing     *)
(* for an empty N.                                                         *)
C7_SearchByTags ==
    last.op = "search_by_tags" =>
       /\ last.status = 200
       /\ DOMAIN last.result =
             {p \in DOMAIN photos : Matches(p, last.body.names)}
       /\ \A p \in DOMAIN last.result : last.result[p] = 1
       /\ last.body.names = {} => last.result = EmptyResult

(* A search returns another user's photo, two of whose tags match.         *)
C7_Witness ==
    /\ last.op = "search_by_tags"
    /\ \E p \in DOMAIN last.result :
          /\ photos[p].owner # last.caller
          /\ Cardinality({t \in PhotoTags(p) :
                             tags[t].name \in last.body.names}) = 2

ReferentialIntegrity ==
    /\ \A a \in DOMAIN albums : albums[a].owner \in DOMAIN users
    /\ \A p \in DOMAIN photos :
          photos[p].owner \in DOMAIN users /\ photos[p].album \in DOMAIN albums
    /\ \A pt \in photo_tags : pt[1] \in DOMAIN photos /\ pt[2] \in DOMAIN tags

(* C8: deleting a user removes the albums and photos the user owns,        *)
(* deleting an album removes its photos, and in every state each album     *)
(* has a stored owner, each photo a stored owner and album, and each       *)
(* photo-tag row a stored photo and tag.                                   *)
C8_Cascade ==
    [][ /\ (last'.op = "user_delete" /\ last'.status = 204)
              => /\ last'.id \notin DOMAIN users'
                 /\ \A a \in DOMAIN albums :
                       albums[a].owner = last'.id => a \notin DOMAIN albums'
                 /\ \A p \in DOMAIN photos :
                       photos[p].owner = last'.id => p \notin DOMAIN photos'
        /\ (last'.op = "album_delete" /\ last'.status = 204)
              => /\ last'.id \notin DOMAIN albums'
                 /\ \A p \in DOMAIN photos :
                       photos[p].album = last'.id => p \notin DOMAIN photos'
        /\ ReferentialIntegrity' ]_vars

(* An album has been deleted and the one photo ever uploaded is gone,      *)
(* while its tag is still stored.                                          *)
C8_Witness ==
    /\ last.op = "album_delete"
    /\ last.status = 204
    /\ nextPhoto = 2
    /\ DOMAIN photos = {}
    /\ photo_tags = {}
    /\ DOMAIN tags # {}
    /\ DOMAIN users # {}

(* C9: a photo update without tag_ids leaves the photo's tags as they      *)
(* were; with tag_ids it keeps no tag outside the list, so an empty list   *)
(* removes every tag; a create with an empty or absent list stores a       *)
(* photo without tags.                                                     *)
C9_TagIdsFrame ==
    [][ /\ (last'.op = "photo_update" /\ last'.status = 200
              /\ ~last'.body.has_tag_ids)
           => TagsIn(photo_tags', last'.id) = PhotoTags(last'.id)
        /\ (last'.op = "photo_update" /\ last'.status = 200
              /\ last'.body.has_tag_ids)
           => /\ TagsIn(photo_tags', last'.id) \subseteq Range(last'.body.tag_ids)
              /\ last'.body.tag_ids = <<>> => TagsIn(photo_tags', last'.id) = {}
        /\ (last'.op = "photo_create" /\ last'.status = 201
              /\ last'.body.tag_ids = <<>>)
           => TagsIn(photo_tags', last'.id) = {}
        /\ (last'.op \in {"photo_update", "photo_create"}
              /\ last'.status \in {200, 201})
           => \A p \in DOMAIN photos \ {last'.id} :
                 TagsIn(photo_tags', p) = PhotoTags(p) ]_vars

(* A tagged photo has been updated by a body without tag_ids.              *)
C9_Witness ==
    /\ last.op = "photo_update"
    /\ last.status = 200
    /\ ~last.body.has_tag_ids
    /\ PhotoTags(last.id) # {}

(* C10: every stored photo is owned by the owner of its album, and so is   *)
(* every photo embedded in an album that is returned to its owner.         *)
C10_PhotoOwnerIsAlbumOwner ==
    /\ \A p \in DOMAIN photos :
          photos[p].album \in DOMAIN albums
             => photos[p].owner = albums[photos[p].album].owner
    /\ (last.op \in {"album_list", "album_retrieve"} /\ last.status = 200)
          => \A p \in last.nested :
                p \in DOMAIN photos => photos[p].owner = last.caller

====
